---- MODULE Spec2Model ----
(***************************************************************************)
(* NaiveArn (src/src/naive.rs): the parser and formatter of                *)
(*   arn:partition:service:region:account-id:resource                     *)
(* A string is a sequence of one-character strings.  An Option<&str> is a  *)
(* sequence of length 0 (None) or 1 (Some(v)), so Some("") and None are    *)
(* different values.                                                       *)
(***************************************************************************)
EXTENDS Naturals, Sequences, FiniteSets

VARIABLES pc, input, result, arn, text, reparsed

vars == <<pc, input, result, arn, text, reparsed>>

(* ------------------------------ bounds --------------------------------- *)

\* longest text after the first word of an input
MaxTailLen == 12
\* longest field of an identifier built through its public fields
MaxFieldLen == 2

TailChars == {":", "x"}

StrOver(chars, n) == UNION {[1..k -> chars] : k \in 0..n}

\* how an input starts: "arn", and texts that differ from it in case, by one
\* character more or less, or entirely
FirstWords ==
    {<<>>, <<"a">>, <<"a", "r">>, <<"r", "n">>, <<"a", "r", "n">>,
     <<"A", "r", "n">>, <<"a", "r", "n", "n">>}

Inputs == {w \o t : w \in FirstWords, t \in StrOver(TailChars, MaxTailLen)}

(* ------------------------------ values --------------------------------- *)

None == <<>>
Some(v) == <<v>>

EmptyStr == <<>>
ArnPrefix == <<"a", "r", "n">>

NaiveArn(partition, service, region, account_id, resource) ==
    [partition |-> partition, service |-> service, region |-> region,
     account_id |-> account_id, resource |-> resource]

NoArn == NaiveArn(EmptyStr, EmptyStr, None, None, EmptyStr)

NotEnoughElements == "NotEnoughElements"
MissingPrefix == "MissingPrefix"
MissingPartition == "MissingPartition"
MissingService == "MissingService"
MissingResource == "MissingResource"

ParseNaiveArnError ==
    {NotEnoughElements, MissingPrefix, MissingPartition, MissingService,
     MissingResource}

Ok(a) == [ok |-> TRUE, err |-> "", arn |-> a]
Err(e) == [ok |-> FALSE, err |-> e, arn |-> NoArn]

\* no call of parse has returned yet
NoResult == [ok |-> FALSE, err |-> "", arn |-> NoArn]

(* --------------------------- str::splitn ------------------------------- *)

\* index of the first ':' of s, 0 when s has none
FirstColon(s) ==
    IF \E i \in 1..Len(s) : s[i] = ":"
    THEN CHOOSE i \in 1..Len(s) :
            s[i] = ":" /\ \A j \in 1..(i - 1) : s[j] # ":"
    ELSE 0

RECURSIVE SplitAll(_, _)
\* mutant of SplitN: s.split(':').take(n), the last item cut at the next ':'
SplitAll(s, n) ==
    IF n = 0 THEN <<>>
    ELSE IF FirstColon(s) = 0 THEN <<s>>
    ELSE <<SubSeq(s, 1, FirstColon(s) - 1)>>
            \o SplitAll(SubSeq(s, FirstColon(s) + 1, Len(s)), n - 1)

RECURSIVE SplitN(_, _)
\* s.splitn(n, ':'): at most n items, the last one the whole remainder
SplitN(s, n) ==
    IF n = 0 THEN <<>>
    ELSE IF n = 1 \/ FirstColon(s) = 0 THEN <<s>>
    ELSE <<SubSeq(s, 1, FirstColon(s) - 1)>>
            \o SplitN(SubSeq(s, FirstColon(s) + 1, Len(s)), n - 1)

\* mutant of NextElement: an exhausted iterator read as an empty part
NextElementOrEmpty(elements, k) ==
    IF k <= Len(elements) THEN Some(elements[k]) ELSE Some(EmptyStr)

\* the k-th call of elements.next()
NextElement(elements, k) ==
    IF k <= Len(elements) THEN Some(elements[k]) ELSE None

(* --------------------------- NaiveArn::parse --------------------------- *)

\* mutant of PrefixMatches: starts_with("arn") in place of equality
PrefixStartsWith(e) ==
    /\ e # None
    /\ Len(e[1]) >= 3
    /\ SubSeq(e[1], 1, 3) = ArnPrefix

PrefixMatches(e) == e = Some(ArnPrefix)

\* mutant of RequiredField: the Some("") arm falls into the None arm
RequiredFieldNoEmptyArm(e, missing) ==
    IF e = None \/ e = Some(EmptyStr) THEN NotEnoughElements ELSE ""

\* mutant of RequiredField: the Some("") arm is missing, an empty part binds
RequiredFieldAcceptsEmpty(e, missing) ==
    IF e = None THEN NotEnoughElements ELSE ""

\* the match of a required position: the error it returns, "" when it binds
RequiredField(e, missing) ==
    IF e = None THEN NotEnoughElements
    ELSE IF e = Some(EmptyStr) THEN missing
    ELSE ""

\* mutant of OptionalField: the Some("") arm is missing
OptionalFieldKeepsEmpty(e) == Some(e[1])

\* the match of an optional position that is present
OptionalField(e) ==
    IF e = Some(EmptyStr) THEN None ELSE Some(e[1])

Parse(s) ==
    LET elements == SplitN(s, 6)
        e1 == NextElement(elements, 1)
        e2 == NextElement(elements, 2)
        e3 == NextElement(elements, 3)
        e4 == NextElement(elements, 4)
        e5 == NextElement(elements, 5)
        e6 == NextElement(elements, 6)
    IN  IF ~PrefixMatches(e1) THEN Err(MissingPrefix)
        ELSE IF RequiredField(e2, MissingPartition) # ""
            THEN Err(RequiredField(e2, MissingPartition))
        ELSE IF RequiredField(e3, MissingService) # ""
            THEN Err(RequiredField(e3, MissingService))
        ELSE IF e4 = None THEN Err(NotEnoughElements)
        ELSE IF e5 = None THEN Err(NotEnoughElements)
        ELSE IF RequiredField(e6, MissingResource) # ""
            THEN Err(RequiredField(e6, MissingResource))
        ELSE Ok(NaiveArn(e2[1], e3[1], OptionalField(e4), OptionalField(e5),
                         e6[1]))

(* ------------------------ Display for NaiveArn ------------------------- *)

\* mutant of UnwrapOrDefault: unwrap_or("*")
UnwrapOrStar(o) == IF o = None THEN <<"*">> ELSE o[1]

UnwrapOrDefault(o) == IF o = None THEN EmptyStr ELSE o[1]

\* mutant of Format: an absent field is written without its colon
FormatSkipsAbsent(a) ==
    ArnPrefix \o <<":">> \o a.partition \o <<":">> \o a.service \o <<":">>
        \o (IF a.region = None THEN EmptyStr ELSE a.region[1] \o <<":">>)
        \o (IF a.account_id = None THEN EmptyStr
            ELSE a.account_id[1] \o <<":">>)
        \o a.resource

\* mutant of Format: account_id written before region
FormatSwapped(a) ==
    ArnPrefix \o <<":">> \o a.partition \o <<":">> \o a.service \o <<":">>
        \o (IF a.account_id = None THEN EmptyStr ELSE a.account_id[1])
        \o <<":">>
        \o (IF a.region = None THEN EmptyStr ELSE a.region[1])
        \o <<":">> \o a.resource

Format(a) ==
    ArnPrefix \o <<":">> \o a.partition \o <<":">> \o a.service \o <<":">>
        \o UnwrapOrDefault(a.region) \o <<":">>
        \o UnwrapOrDefault(a.account_id) \o <<":">> \o a.resource

(* ------------------- parse, to_string, parse again --------------------- *)

Init ==
    /\ pc = "start"
    /\ input \in Inputs
    /\ result = NoResult
    /\ arn = NoArn
    /\ text = EmptyStr
    /\ reparsed = NoResult

\* let r = NaiveArn::parse(input)
ParseStep ==
    /\ pc = "start"
    /\ result' = Parse(input)
    /\ arn' = Parse(input).arn
    /\ pc' = "parsed"
    /\ UNCHANGED <<input, text, reparsed>>

\* let text = r.unwrap().to_string()
FormatStep ==
    /\ pc = "parsed"
    /\ result.ok
    /\ text' = Format(arn)
    /\ pc' = "formatted"
    /\ UNCHANGED <<input, result, arn, reparsed>>

\* NaiveArn::parse(&text)
ReparseStep ==
    /\ pc = "formatted"
    /\ reparsed' = Parse(text)
    /\ pc' = "reparsed"
    /\ UNCHANGED <<input, result, arn, text>>

Next == ParseStep \/ FormatStep \/ ReparseStep

Spec == Init /\ [][Next]_vars

(* ------- an identifier built through its public fields, then ---------- *)
(* ------- to_string and parse                                 ---------- *)

FieldStrs == StrOver(TailChars, MaxFieldLen)
FieldOpts == {None} \cup {Some(v) : v \in FieldStrs}

InitBuilt ==
    /\ pc = "new"
    /\ input = EmptyStr
    /\ result = NoResult
    /\ arn = NoArn
    /\ text = EmptyStr
    /\ reparsed = NoResult

\* NaiveArn { partition, service, region, account_id, resource }
Build ==
    /\ pc = "new"
    /\ \E partition \in FieldStrs, service \in FieldStrs, region \in FieldOpts,
          account_id \in FieldOpts, resource \in FieldStrs :
            arn' = NaiveArn(partition, service, region, account_id, resource)
    /\ pc' = "built"
    /\ UNCHANGED <<input, result, text, reparsed>>

\* let text = arn.to_string()
FormatBuilt ==
    /\ pc = "built"
    /\ text' = Format(arn)
    /\ pc' = "formatted"
    /\ UNCHANGED <<input, result, arn, reparsed>>

NextBuilt == Build \/ FormatBuilt \/ ReparseStep

SpecBuilt == InitBuilt /\ [][NextBuilt]_vars

(* ------------- the colon-delimited parts of a string ------------------- *)
(* Stated by counting colons, independently of SplitN.                     *)

NumColons(s) == Cardinality({i \in 1..Len(s) : s[i] = ":"})

\* position of the k-th ':' of s; 0 for k = 0, Len(s) + 1 when s has fewer
ColonAt(s, k) ==
    IF k = 0 THEN 0
    ELSE IF k > NumColons(s) THEN Len(s) + 1
    ELSE CHOOSE i \in 1..Len(s) :
            s[i] = ":" /\ Cardinality({j \in 1..i : s[j] = ":"}) = k

\* s has a k-th colon-delimited part
HasPart(s, k) == k <= NumColons(s) + 1

\* the k-th colon-delimited part of s (k <= NumColons(s) + 1)
Part(s, k) == SubSeq(s, ColonAt(s, k - 1) + 1, ColonAt(s, k) - 1)

\* the text after the k-th ':' of s
AfterColon(s, k) == SubSeq(s, ColonAt(s, k) + 1, Len(s))

HasColon(s) == \E i \in 1..Len(s) : s[i] = ":"

OptionOf(part) == IF part = EmptyStr THEN None ELSE Some(part)

Parsed == pc \in {"parsed", "formatted", "reparsed"}
Formatted == pc \in {"formatted", "reparsed"}

(* ------------------------------ C1 ------------------------------------- *)

\* C1: whenever parse(input) succeeds, to_string of the parsed value is
\* exactly input, whatever the emptiness of the region and account-id
\* segments.
C1_RoundTrip == (Formatted /\ result.ok) => text = input

C1_Witness ==
    /\ pc = "formatted"
    /\ text = input
    /\ arn.region = None
    /\ arn.account_id # None
    /\ HasColon(arn.resource)

(* ------------------------------ C2 ------------------------------------- *)

\* C2: whenever parse(input) succeeds, partition is part 2, service part 3,
\* region None/Some(part 4), account_id None/Some(part 5) by emptiness, and
\* resource the whole text after the fifth colon.
C2_FieldsVerbatim ==
    (Parsed /\ result.ok) =>
        /\ result.arn.partition = Part(input, 2)
        /\ result.arn.service = Part(input, 3)
        /\ result.arn.region = OptionOf(Part(input, 4))
        /\ result.arn.account_id = OptionOf(Part(input, 5))
        /\ result.arn.resource = AfterColon(input, 5)

C2_Witness ==
    /\ pc = "parsed"
    /\ result.ok
    /\ NumColons(input) > 5
    /\ result.arn.resource = AfterColon(input, 5)
    /\ result.arn.region # None
    /\ result.arn.account_id = None

(* ------------------------------ C3 ------------------------------------- *)

\* position k (2..6) of s is reached with every earlier position passing
EarlierPass(s, k) ==
    /\ Part(s, 1) = ArnPrefix
    /\ \A j \in 2..(k - 1) :
        /\ HasPart(s, j)
        /\ (j \in {2, 3} => Part(s, j) # EmptyStr)

\* C3: with part 1 equal to "arn", parse reports the error of the first
\* position that fails its rule: an absent position reached gives
\* NotEnoughElements, an empty part 2 MissingPartition, an empty part 3
\* MissingService, an empty part 6 MissingResource, whatever comes later.
C3_FirstFailure ==
    Parsed =>
        /\ \A k \in 2..6 :
            (EarlierPass(input, k) /\ ~HasPart(input, k))
                => result = Err(NotEnoughElements)
        /\ (EarlierPass(input, 2) /\ HasPart(input, 2)
                /\ Part(input, 2) = EmptyStr)
                => result = Err(MissingPartition)
        /\ (EarlierPass(input, 3) /\ HasPart(input, 3)
                /\ Part(input, 3) = EmptyStr)
                => result = Err(MissingService)
        /\ (EarlierPass(input, 6) /\ HasPart(input, 6)
                /\ AfterColon(input, 5) = EmptyStr)
                => result = Err(MissingResource)
        /\ result = Err(NotEnoughElements)
                => \E k \in 2..6 :
                    EarlierPass(input, k) /\ ~HasPart(input, k)

\* "arn:" gives MissingPartition although parts 3 to 6 are absent
C3_Witness ==
    /\ pc = "parsed"
    /\ input = ArnPrefix \o <<":">>
    /\ result = Err(MissingPartition)

(* ------------------------------ C4 ------------------------------------- *)

\* C4: parse returns MissingPrefix exactly when the first colon-delimited
\* part of the input is not "arn", whatever follows; the input "arn" alone
\* gives NotEnoughElements.
C4_MissingPrefix ==
    Parsed =>
        /\ (result = Err(MissingPrefix)) <=> (Part(input, 1) # ArnPrefix)
        /\ input = ArnPrefix => result = Err(NotEnoughElements)

\* a first part that starts with "arn" and is longer, before a well-formed
\* rest
C4_Witness ==
    /\ pc = "parsed"
    /\ result = Err(MissingPrefix)
    /\ Part(input, 1) = ArnPrefix \o <<"x">>
    /\ NumColons(input) >= 5
    /\ Part(input, 2) # EmptyStr
    /\ Part(input, 3) # EmptyStr
    /\ AfterColon(input, 5) # EmptyStr

(* ------------------------------ C5 ------------------------------------- *)

\* C5 as stated: first part "arn" and fewer than five colons give
\* NotEnoughElements.
C5_Original ==
    (Parsed /\ Part(input, 1) = ArnPrefix /\ NumColons(input) < 5)
        => result = Err(NotEnoughElements)

\* C5 amended: first part "arn" and fewer than five colons make parse fail;
\* the error is MissingPartition when part 2 is present and empty,
\* MissingService when part 2 is non-empty and part 3 is present and empty,
\* and NotEnoughElements otherwise.
C5_Amended ==
    (Parsed /\ Part(input, 1) = ArnPrefix /\ NumColons(input) < 5) =>
        result =
            IF HasPart(input, 2) /\ Part(input, 2) = EmptyStr
                THEN Err(MissingPartition)
            ELSE IF HasPart(input, 3) /\ Part(input, 3) = EmptyStr
                THEN Err(MissingService)
            ELSE Err(NotEnoughElements)

\* five parts, none of the required ones empty
C5_Witness ==
    /\ pc = "parsed"
    /\ Part(input, 1) = ArnPrefix
    /\ NumColons(input) = 4
    /\ Part(input, 2) # EmptyStr
    /\ Part(input, 3) # EmptyStr
    /\ result = Err(NotEnoughElements)

(* ------------------------------ C6 ------------------------------------- *)

\* C6: parse returns Ok or exactly one of the five errors, and Ok exactly
\* when the input has at least five colons, first part "arn", non-empty
\* parts 2 and 3 and non-empty text after the fifth colon.
C6_OkIffWellFormed ==
    Parsed =>
        /\ \/ result.ok /\ result.err = ""
           \/ ~result.ok /\ result.err \in ParseNaiveArnError
                /\ result.arn = NoArn
        /\ result.ok <=>
            /\ NumColons(input) >= 5
            /\ Part(input, 1) = ArnPrefix
            /\ Part(input, 2) # EmptyStr
            /\ Part(input, 3) # EmptyStr
            /\ AfterColon(input, 5) # EmptyStr

\* success with empty parts 4 and 5 and a resource made of colons only
C6_Witness ==
    /\ pc = "parsed"
    /\ result.ok
    /\ Part(input, 4) = EmptyStr
    /\ Part(input, 5) = EmptyStr
    /\ AfterColon(input, 5) = <<":", ":">>

(* ------------------------------ C7 ------------------------------------- *)

\* C7: when parse(input) succeeds with id, parse(to_string(id)) succeeds
\* with an identifier equal to id in all five fields.
C7_ReparseStable ==
    (pc = "reparsed" /\ result.ok) => reparsed = Ok(arn)

C7_Witness ==
    /\ pc = "reparsed"
    /\ result.ok
    /\ reparsed = Ok(arn)
    /\ arn.region # None
    /\ arn.account_id = None

(* ------------------------------ C10 ------------------------------------ *)

WellFormedArn(a) ==
    /\ ~HasColon(a.partition)
    /\ ~HasColon(a.service)
    /\ a.region # None => ~HasColon(a.region[1])
    /\ a.account_id # None => ~HasColon(a.account_id[1])
    /\ a.partition # EmptyStr
    /\ a.service # EmptyStr
    /\ a.resource # EmptyStr
    /\ a.region # Some(EmptyStr)
    /\ a.account_id # Some(EmptyStr)

\* C10: every identifier parse returns has colon-free partition, service,
\* region and account_id, non-empty partition, service and resource, and
\* never Some("") as region or account_id.
C10_ParsedWellFormed ==
    /\ (Parsed /\ result.ok) => WellFormedArn(result.arn)
    /\ (pc = "reparsed" /\ reparsed.ok) => WellFormedArn(reparsed.arn)

C10_Witness ==
    /\ pc = "parsed"
    /\ result.ok
    /\ Part(input, 4) = EmptyStr
    /\ Part(input, 5) = EmptyStr
    /\ HasColon(result.arn.resource)
    /\ WellFormedArn(result.arn)

(* ------------------------------ C8 ------------------------------------- *)

\* the constraints section 3 of the specification puts on the fields
DataModel(a) ==
    /\ a.partition # EmptyStr
    /\ a.service # EmptyStr
    /\ a.resource # EmptyStr
    /\ a.region # Some(EmptyStr)
    /\ a.account_id # Some(EmptyStr)

ColonFree(a) ==
    /\ ~HasColon(a.partition)
    /\ ~HasColon(a.service)
    /\ a.region # None => ~HasColon(a.region[1])
    /\ a.account_id # None => ~HasColon(a.account_id[1])

\* C8 as stated: every identifier that satisfies the data model, however
\* built, re-parses from its formatted text to an equal identifier.
C8_Original ==
    (pc = "reparsed" /\ DataModel(arn)) => reparsed = Ok(arn)

\* C8 amended: every identifier that satisfies the data model and whose
\* partition, service, region and account_id contain no ':' re-parses from
\* its formatted text to an equal identifier.
C8_Amended ==
    (pc = "reparsed" /\ DataModel(arn) /\ ColonFree(arn))
        => reparsed = Ok(arn)

C8_Witness ==
    /\ pc = "reparsed"
    /\ DataModel(arn)
    /\ ColonFree(arn)
    /\ HasColon(arn.resource)
    /\ arn.region = None
    /\ arn.account_id # None
    /\ reparsed = Ok(arn)

(* ------------------------------ C9 ------------------------------------- *)

Absent(o) == o \in {None, Some(EmptyStr)}

\* index in to_string(a) of the ':' that follows the service
ServiceColon(a) == Len(a.partition) + Len(a.service) + 6

\* index in to_string(a) of the ':' that follows the region
RegionColon(a) == ServiceColon(a) + Len(UnwrapOrDefault(a.region)) + 1

\* to_string gives the same text for None and Some("") in region, resp.
\* account_id, with nothing between the two colons around the field
SameRendering ==
    /\ (Formatted /\ Absent(arn.region)) =>
        /\ text = Format([arn EXCEPT !.region = None])
        /\ text = Format([arn EXCEPT !.region = Some(EmptyStr)])
        /\ text[ServiceColon(arn)] = ":"
        /\ text[ServiceColon(arn) + 1] = ":"
    /\ (Formatted /\ Absent(arn.account_id)) =>
        /\ text = Format([arn EXCEPT !.account_id = None])
        /\ text = Format([arn EXCEPT !.account_id = Some(EmptyStr)])
        /\ text[RegionColon(arn)] = ":"
        /\ text[RegionColon(arn) + 1] = ":"

\* partition, service and resource non-empty, as the data model demands
RequiredPresent(a) ==
    /\ a.partition # EmptyStr
    /\ a.service # EmptyStr
    /\ a.resource # EmptyStr

\* C9 as stated: None and Some("") format identically, and re-parsing the
\* text yields None for that field.  Stated here for the identifiers whose
\* required fields are non-empty only, a case of the claim.
C9_Original ==
    /\ SameRendering
    /\ (pc = "reparsed" /\ RequiredPresent(arn) /\ Absent(arn.region))
        => (reparsed.ok /\ reparsed.arn.region = None)
    /\ (pc = "reparsed" /\ RequiredPresent(arn) /\ Absent(arn.account_id))
        => (reparsed.ok /\ reparsed.arn.account_id = None)

\* C9 amended: None and Some("") format identically, with nothing between
\* the colons; no re-parse yields Some(""); and the re-parse succeeds with
\* None for the field when partition, service and resource are non-empty and
\* the fields written before that segment contain no ':'.
C9_Amended ==
    /\ SameRendering
    /\ (pc = "reparsed" /\ RequiredPresent(arn) /\ Absent(arn.region)
            /\ ~HasColon(arn.partition) /\ ~HasColon(arn.service))
        => (reparsed.ok /\ reparsed.arn.region = None)
    /\ (pc = "reparsed" /\ RequiredPresent(arn) /\ Absent(arn.account_id)
            /\ ~HasColon(arn.partition) /\ ~HasColon(arn.service)
            /\ ~HasColon(UnwrapOrDefault(arn.region)))
        => (reparsed.ok /\ reparsed.arn.account_id = None)
    /\ pc = "reparsed" =>
        /\ reparsed.arn.region # Some(EmptyStr)
        /\ reparsed.arn.account_id # Some(EmptyStr)

\* region built as Some(""), read back as None
C9_Witness ==
    /\ pc = "reparsed"
    /\ arn.region = Some(EmptyStr)
    /\ arn.account_id # None
    /\ arn.account_id # Some(EmptyStr)
    /\ text = Format([arn EXCEPT !.region = None])
    /\ reparsed.ok
    /\ reparsed.arn.region = None

====
